---- MODULE Spec2Model ----
(***************************************************************************)
(* Model of zig-april-captions-ui/src-tauri/update_windows_config.py: the  *)
(* script that writes nsis_hooks.nsi and patches tauri.conf.json for the   *)
(* Windows build.  The two files on disk, the filesystem conditions under  *)
(* which open()/write() fail, the in-memory `config` and the position of   *)
(* the script are the state; every top-level statement is one action.      *)
(***************************************************************************)
EXTENDS Integers, Sequences, FiniteSets, TLC

\* Number of times the script is invoked in one behaviour.
MaxRuns == 2
\* Longest `bundle.resources` list found in an input document.
MaxResLen == 4

(***************************************************************************)
(* JSON values as json.load produces them.  A dict keeps insertion order,  *)
(* so an object is a sequence of members with distinct keys.               *)
(***************************************************************************)
JObject(m) == [type |-> "object", members |-> m]
JArray(a) == [type |-> "array", items |-> a]
JString(s) == [type |-> "string", str |-> s]
JNull == [type |-> "null"]
Member(k, v) == [key |-> k, value |-> v]
EmptyObject == JObject(<<>>)
\* The name `config` is unbound until line 32 has run.
Unbound == [type |-> "unbound"]

IsObject(v) == v.type = "object"

\* dict.__contains__
Has(v, k) == \E i \in 1..Len(v.members) : v.members[i].key = k

\* dict.__getitem__ (KeyError when the key is absent: callers test Has first)
Get(v, k) == v.members[CHOOSE i \in 1..Len(v.members) : v.members[i].key = k].value

\* dict.__setitem__: an existing key keeps its position, a new key goes last.
SetItem(v, k, x) ==
    IF Has(v, k)
    THEN JObject([i \in 1..Len(v.members) |->
                    IF v.members[i].key = k THEN Member(k, x) ELSE v.members[i]])
    ELSE JObject(Append(v.members, Member(k, x)))

\* `k in v` raises TypeError for None.
InRaises(v) == v.type \notin {"object", "array", "string"}

\* `k in v` for a dict (key), a list (element) and a str (substring; the
\* strings of the model either equal k or do not contain it).
In(k, v) ==
    CASE v.type = "object" -> Has(v, k)
      [] v.type = "array"  -> \E i \in 1..Len(v.items) : v.items[i] = k
      [] v.type = "string" -> v.str = k
      [] OTHER -> FALSE

(***************************************************************************)
(* Literals of the script.                                                 *)
(***************************************************************************)
\* Lines of the hook text; every line ends with a newline.
nsis_hook_content ==
    << "!macro NSIS_HOOK_POSTINSTALL",
       "  ; Install VC++ Redistributable silently (required by onnxruntime.dll)",
       "  ExecWait '\"$INSTDIR\\resources\\vc_redist.x64.exe\" /install /quiet /norestart'",
       "!macroend" >>

resources ==
    << "resources/zig-april-captions.exe",
       "resources/onnxruntime.dll",
       "resources/vc_redist.x64.exe" >>

hooks_name == "nsis_hooks.nsi"

(***************************************************************************)
(* Files.  A configuration file is absent, holds text that is not JSON, or *)
(* holds a JSON document in some layout; json.load keeps the document and  *)
(* drops the layout, json.dump(indent=2) plus "\n" fixes the layout.       *)
(***************************************************************************)
AbsentConfig == [kind |-> "absent", layout |-> "", doc |-> JNull]
MalformedConfig == [kind |-> "malformed", layout |-> "", doc |-> JNull]
JsonFile(layout, doc) == [kind |-> "json", layout |-> layout, doc |-> doc]

\* json.load(f)
json_load(file) == file.doc

\* json.dump(config, f, indent=2); f.write("\n")
json_dump(doc) == JsonFile("indent2+newline", doc)

AbsentHooks == [exists |-> FALSE, text |-> <<>>]
HooksFile(text) == [exists |-> TRUE, text |-> text]

\* A mutation of the hook write that opens the file in append mode.
open_a_write(old, text) == HooksFile(old.text \o text)

\* open(path, "w") followed by f.write(text): the old contents are dropped.
open_w_write(old, text) == HooksFile(text)

(***************************************************************************)
(* Input documents.                                                        *)
(***************************************************************************)
NonObjects == {JString("nsis"), JArray(<<>>), JNull}

OldPool(n) == [i \in 1..n |-> IF i \in 2..4 THEN resources[i - 1] ELSE "resources/april.dll"]
OldResources == { JArray(OldPool(n)) : n \in 0..MaxResLen }

OldHooks ==
    { JString("!macro NSIS_HOOK_POSTINSTALL ... !macroend"), JString("hooks/old.nsi"),
      JString(hooks_name) }

\* Member sequences: an optional member k (one of vals) then an optional sibling.
Members(k, vals, sibling) ==
    { a \o b : a \in {<<>>} \cup { <<Member(k, v)>> : v \in vals },
               b \in {<<>>, <<sibling>>} }

NsisValues ==
    { JObject(m) : m \in Members("installerHooks", OldHooks,
                                 Member("installMode", JString("currentUser"))) }
    \cup NonObjects

WindowsValues ==
    { JObject(m) : m \in Members("nsis", NsisValues,
                                 Member("webviewInstallMode", JString("embedBootstrapper"))) }
    \cup NonObjects

BundleValues ==
    { JObject(r \o w) :
        r \in {<<>>} \cup { <<Member("resources", v)>> : v \in OldResources },
        w \in Members("windows", WindowsValues, Member("identifier", JString("com.zigy.app"))) }
    \cup NonObjects

Documents ==
    { JObject(m) : m \in Members("bundle", BundleValues,
                                 Member("productName", JString("Zig April Captions"))) }
    \cup NonObjects

ConfigFiles ==
    {AbsentConfig, MalformedConfig}
    \cup { JsonFile(l, d) : l \in {"compact", "indent2+newline"}, d \in Documents }

HooksFiles == {AbsentHooks, HooksFile(<<"; hooks of an earlier build">>)}

\* Conditions of the filesystem, fixed for a behaviour.
Environments == {"ok", "hooks_readonly", "config_readonly", "no_space", "low_space"}

VARIABLES
    config_file,   \* tauri.conf.json on disk
    hooks_file,    \* nsis_hooks.nsi on disk
    env,           \* filesystem condition
    config,        \* the script's variable `config`
    pc,            \* next statement of the script, "done" or "failed"
    err,           \* the uncaught exception of a failed run
    stdout,        \* print calls of the current run, one tuple of arguments each
    log,           \* statements completed by the current run, in order
    run,           \* number of the current invocation
    pre,           \* the two files as the current run found them
    prevOk         \* the previous invocation ended at "done"

vars == <<config_file, hooks_file, env, config, pc, err, stdout, log, run, pre, prevOk>>

Files == [config_file |-> config_file, hooks_file |-> hooks_file]

Init ==
    /\ config_file \in ConfigFiles
    /\ hooks_file \in HooksFiles
    /\ env \in Environments
    /\ config = Unbound
    /\ pc = "write_hooks"
    /\ err = ""
    /\ stdout = <<>>
    /\ log = <<>>
    /\ run = 1
    /\ pre = Files
    /\ prevOk = FALSE

\* An uncaught exception ends the process.
Raise(e) == pc' = "failed" /\ err' = e

Step(name, next) == pc' = next /\ log' = Append(log, name) /\ err' = err

\* A mutation of the hook write that carries on after a failed open.
WriteHooksFileIgnoreErrors ==
    /\ pc = "write_hooks"
    /\ IF env \in {"hooks_readonly", "no_space"}
       THEN hooks_file' = hooks_file
       ELSE hooks_file' = open_w_write(hooks_file, nsis_hook_content)
    /\ Step("write_hooks", "print_hooks")
    /\ UNCHANGED <<config_file, env, config, stdout, run, pre, prevOk>>

\* with open(hooks_path, "w") as f: f.write(nsis_hook_content)
WriteHooksFile ==
    /\ pc = "write_hooks"
    /\ CASE env = "hooks_readonly" ->
              /\ Raise("PermissionError")
              /\ UNCHANGED <<hooks_file, log>>
         [] env = "no_space" ->
              /\ hooks_file' = HooksFile(<<>>)
              /\ Raise("OSError")
              /\ UNCHANGED log
         [] OTHER ->
              /\ hooks_file' = open_w_write(hooks_file, nsis_hook_content)
              /\ Step("write_hooks", "print_hooks")
    /\ UNCHANGED <<config_file, env, config, stdout, run, pre, prevOk>>

\* print("Wrote nsis_hooks.nsi:"); print(nsis_hook_content)
PrintHooks ==
    /\ pc = "print_hooks"
    /\ stdout' = stdout \o << <<"Wrote nsis_hooks.nsi:">>, <<nsis_hook_content>> >>
    /\ Step("print_hooks", "load")
    /\ UNCHANGED <<config_file, hooks_file, env, config, run, pre, prevOk>>

\* A mutation of the load that removes the hook file when the load fails.
LoadConfigCleanup ==
    /\ pc = "load"
    /\ CASE config_file.kind = "absent" ->
              /\ Raise("FileNotFoundError")
              /\ hooks_file' = AbsentHooks
              /\ UNCHANGED <<config, log>>
         [] config_file.kind = "malformed" ->
              /\ Raise("JSONDecodeError")
              /\ hooks_file' = AbsentHooks
              /\ UNCHANGED <<config, log>>
         [] OTHER ->
              /\ config' = json_load(config_file)
              /\ Step("load", "set_resources")
              /\ UNCHANGED hooks_file
    /\ UNCHANGED <<config_file, env, stdout, run, pre, prevOk>>

\* with open(config_path, "r") as f: config = json.load(f)
LoadConfig ==
    /\ pc = "load"
    /\ CASE config_file.kind = "absent" ->
              Raise("FileNotFoundError") /\ UNCHANGED <<config, log>>
         [] config_file.kind = "malformed" ->
              Raise("JSONDecodeError") /\ UNCHANGED <<config, log>>
         [] OTHER ->
              config' = json_load(config_file) /\ Step("load", "set_resources")
    /\ UNCHANGED <<config_file, hooks_file, env, stdout, run, pre, prevOk>>

Bundle(c) == Get(c, "bundle")
Windows(c) == Get(Bundle(c), "windows")
Nsis(c) == Get(Windows(c), "nsis")

WithBundle(c, b) == SetItem(c, "bundle", b)
WithWindows(c, w) == WithBundle(c, SetItem(Bundle(c), "windows", w))
WithNsis(c, n) == WithWindows(c, SetItem(Windows(c), "nsis", n))

\* A mutation of the resources assignment that extends the list found.
SetResourcesExtend ==
    /\ pc = "set_resources"
    /\ CASE ~IsObject(config) -> Raise("TypeError") /\ UNCHANGED <<config, log>>
         [] IsObject(config) /\ ~Has(config, "bundle") ->
              Raise("KeyError") /\ UNCHANGED <<config, log>>
         [] IsObject(config) /\ Has(config, "bundle") /\ ~IsObject(Bundle(config)) ->
              Raise("TypeError") /\ UNCHANGED <<config, log>>
         [] OTHER ->
              /\ config' = WithBundle(config,
                    SetItem(Bundle(config), "resources",
                        IF Has(Bundle(config), "resources")
                        THEN JArray(Get(Bundle(config), "resources").items \o resources)
                        ELSE JArray(resources)))
              /\ Step("set_resources", "ensure_windows")
    /\ UNCHANGED <<config_file, hooks_file, env, stdout, run, pre, prevOk>>

\* A mutation of the resources assignment that keeps a list already there.
SetResourcesDefault ==
    /\ pc = "set_resources"
    /\ CASE ~IsObject(config) -> Raise("TypeError") /\ UNCHANGED <<config, log>>
         [] IsObject(config) /\ ~Has(config, "bundle") ->
              Raise("KeyError") /\ UNCHANGED <<config, log>>
         [] IsObject(config) /\ Has(config, "bundle") /\ ~IsObject(Bundle(config)) ->
              Raise("TypeError") /\ UNCHANGED <<config, log>>
         [] OTHER ->
              /\ config' = IF Has(Bundle(config), "resources")
                            THEN config
                            ELSE WithBundle(config,
                                    SetItem(Bundle(config), "resources", JArray(resources)))
              /\ Step("set_resources", "ensure_windows")
    /\ UNCHANGED <<config_file, hooks_file, env, stdout, run, pre, prevOk>>

\* config["bundle"]["resources"] = [...]
SetResources ==
    /\ pc = "set_resources"
    /\ CASE ~IsObject(config) -> Raise("TypeError") /\ UNCHANGED <<config, log>>
         [] IsObject(config) /\ ~Has(config, "bundle") ->
              Raise("KeyError") /\ UNCHANGED <<config, log>>
         [] IsObject(config) /\ Has(config, "bundle") /\ ~IsObject(Bundle(config)) ->
              Raise("TypeError") /\ UNCHANGED <<config, log>>
         [] OTHER ->
              /\ config' = WithBundle(config,
                    SetItem(Bundle(config), "resources", JArray(resources)))
              /\ Step("set_resources", "ensure_windows")
    /\ UNCHANGED <<config_file, hooks_file, env, stdout, run, pre, prevOk>>

\* A mutation of the windows guard that assigns {} whatever is there.
EnsureWindowsAlways ==
    /\ pc = "ensure_windows"
    /\ config' = WithBundle(config, SetItem(Bundle(config), "windows", EmptyObject))
    /\ Step("ensure_windows", "ensure_nsis")
    /\ UNCHANGED <<config_file, hooks_file, env, stdout, run, pre, prevOk>>

\* if "windows" not in config["bundle"]: config["bundle"]["windows"] = {}
EnsureWindows ==
    /\ pc = "ensure_windows"
    /\ IF ~Has(Bundle(config), "windows")
       THEN config' = WithBundle(config, SetItem(Bundle(config), "windows", EmptyObject))
       ELSE config' = config
    /\ Step("ensure_windows", "ensure_nsis")
    /\ UNCHANGED <<config_file, hooks_file, env, stdout, run, pre, prevOk>>

\* A mutation of the nsis guard that assigns {} whatever is there.
EnsureNsisAlways ==
    /\ pc = "ensure_nsis"
    /\ IF ~IsObject(Windows(config))
       THEN Raise("TypeError") /\ UNCHANGED <<config, log>>
       ELSE config' = WithNsis(config, EmptyObject) /\ Step("ensure_nsis", "set_hooks")
    /\ UNCHANGED <<config_file, hooks_file, env, stdout, run, pre, prevOk>>

\* if "nsis" not in config["bundle"]["windows"]: config["bundle"]["windows"]["nsis"] = {}
EnsureNsis ==
    /\ pc = "ensure_nsis"
    /\ CASE InRaises(Windows(config)) -> Raise("TypeError") /\ UNCHANGED <<config, log>>
         [] ~InRaises(Windows(config)) /\ In("nsis", Windows(config)) ->
              config' = config /\ Step("ensure_nsis", "set_hooks")
         [] ~InRaises(Windows(config)) /\ ~In("nsis", Windows(config))
               /\ ~IsObject(Windows(config)) ->
              Raise("TypeError") /\ UNCHANGED <<config, log>>
         [] OTHER ->
              config' = WithNsis(config, EmptyObject) /\ Step("ensure_nsis", "set_hooks")
    /\ UNCHANGED <<config_file, hooks_file, env, stdout, run, pre, prevOk>>

\* A mutation of the hook assignment that stores the script text itself.
SetInstallerHooksInline ==
    /\ pc = "set_hooks"
    /\ IF ~IsObject(Windows(config)) \/ ~IsObject(Nsis(config))
       THEN Raise("TypeError") /\ UNCHANGED <<config, log>>
       ELSE /\ config' = WithNsis(config,
                    SetItem(Nsis(config), "installerHooks", JString(nsis_hook_content[1])))
            /\ Step("set_hooks", "dump")
    /\ UNCHANGED <<config_file, hooks_file, env, stdout, run, pre, prevOk>>

\* config["bundle"]["windows"]["nsis"]["installerHooks"] = "nsis_hooks.nsi"
SetInstallerHooks ==
    /\ pc = "set_hooks"
    /\ IF ~IsObject(Windows(config)) \/ ~IsObject(Nsis(config))
       THEN Raise("TypeError") /\ UNCHANGED <<config, log>>
       ELSE /\ config' = WithNsis(config,
                    SetItem(Nsis(config), "installerHooks", JString(hooks_name)))
            /\ Step("set_hooks", "dump")
    /\ UNCHANGED <<config_file, hooks_file, env, stdout, run, pre, prevOk>>

\* with open(config_path, "w") as f: json.dump(config, f, indent=2); f.write("\n")
DumpConfig ==
    /\ pc = "dump"
    /\ CASE env = "config_readonly" ->
              /\ Raise("PermissionError")
              /\ UNCHANGED <<config_file, log>>
         [] env = "low_space" ->
              /\ config_file' = MalformedConfig
              /\ Raise("OSError")
              /\ UNCHANGED log
         [] OTHER ->
              /\ config_file' = json_dump(config)
              /\ Step("dump", "print_done")
    /\ UNCHANGED <<hooks_file, env, config, stdout, run, pre, prevOk>>

\* The three closing print calls.
PrintDone ==
    /\ pc = "print_done"
    /\ stdout' = stdout \o
          << <<"Updated tauri.conf.json with Windows resources + NSIS VC++ Redist hook">>,
             <<"  resources:", Get(Bundle(config), "resources")>>,
             <<"  installerHooks:", Get(Nsis(config), "installerHooks")>> >>
    /\ Step("print_done", "done")
    /\ UNCHANGED <<config_file, hooks_file, env, config, run, pre, prevOk>>

\* The script is invoked again on the files the last invocation left.
Rerun ==
    /\ pc \in {"done", "failed"}
    /\ run < MaxRuns
    /\ run' = run + 1
    /\ prevOk' = (pc = "done")
    /\ pre' = Files
    /\ pc' = "write_hooks"
    /\ err' = ""
    /\ config' = Unbound
    /\ stdout' = <<>>
    /\ log' = <<>>
    /\ UNCHANGED <<config_file, hooks_file, env>>

Next ==
    \/ WriteHooksFile
    \/ PrintHooks
    \/ LoadConfig
    \/ SetResources
    \/ EnsureWindows
    \/ EnsureNsis
    \/ SetInstallerHooks
    \/ DumpConfig
    \/ PrintDone
    \/ Rerun

Spec == Init /\ [][Next]_vars

(***************************************************************************)
(* Vocabulary of the properties.                                           *)
(***************************************************************************)
Missing == [type |-> "missing"]

\* The value under key k, or Missing when v is not a dict or lacks k.
Lookup(v, k) == IF IsObject(v) /\ Has(v, k) THEN Get(v, k) ELSE Missing

BundleOf(d) == Lookup(d, "bundle")
ResourcesOf(d) == Lookup(BundleOf(d), "resources")
WindowsOf(d) == Lookup(BundleOf(d), "windows")
NsisOf(d) == Lookup(WindowsOf(d), "nsis")
InstallerHooksOf(d) == Lookup(NsisOf(d), "installerHooks")

\* The document a file holds, Missing when the file holds none.
DocOf(file) == IF file.kind = "json" THEN file.doc ELSE Missing

PreDoc == DocOf(pre.config_file)
Persisted == DocOf(config_file)

Succeeded == pc = "done"
Ended == pc \in {"done", "failed"}
Completed(name) == \E i \in 1..Len(log) : log[i] = name

\* Every member of old outside `changed` is in new with its value, and new
\* has no key beyond those of old and `changed`.
Frame(old, new, changed) ==
    /\ IsObject(new)
    /\ \A i \in 1..Len(old.members) :
          old.members[i].key \notin changed =>
             Lookup(new, old.members[i].key) = old.members[i].value
    /\ \A j \in 1..Len(new.members) :
          Has(old, new.members[j].key) \/ new.members[j].key \in changed

OrEmpty(v) == IF IsObject(v) THEN v ELSE EmptyObject

\* C1: after a successful run on a document with a `bundle` mapping, the
\* persisted bundle.resources is exactly the three fixed paths, in order.
C1_ResourcesOverwritten ==
    (Succeeded /\ IsObject(BundleOf(PreDoc)))
       => ResourcesOf(Persisted) = JArray(resources)

C1_Witness ==
    /\ Succeeded
    /\ ResourcesOf(PreDoc) = JArray(OldPool(4))
    /\ ResourcesOf(Persisted) = JArray(resources)

\* C2: after a successful run on a document with a `bundle` mapping, the
\* persisted bundle.windows.nsis.installerHooks is "nsis_hooks.nsi".
C2_InstallerHooksSet ==
    (Succeeded /\ IsObject(BundleOf(PreDoc)))
       => InstallerHooksOf(Persisted) = JString(hooks_name)

C2_Witness ==
    /\ Succeeded
    /\ InstallerHooksOf(PreDoc) = JString("!macro NSIS_HOOK_POSTINSTALL ... !macroend")
    /\ InstallerHooksOf(Persisted) = JString(hooks_name)

\* C3: a successful run keeps every other key of the top level, of bundle,
\* of bundle.windows and of bundle.windows.nsis with its value, and adds no
\* key besides resources, windows, nsis and installerHooks.
C3_SiblingsPreserved ==
    Succeeded =>
       /\ Frame(PreDoc, Persisted, {"bundle"})
       /\ Has(PreDoc, "bundle")
       /\ Frame(BundleOf(PreDoc), BundleOf(Persisted), {"resources", "windows"})
       /\ Frame(OrEmpty(WindowsOf(PreDoc)), WindowsOf(Persisted), {"nsis"})
       /\ Frame(OrEmpty(NsisOf(PreDoc)), NsisOf(Persisted), {"installerHooks"})

C3_Witness ==
    /\ Succeeded
    /\ Has(PreDoc, "productName")
    /\ Has(BundleOf(PreDoc), "identifier")
    /\ Lookup(WindowsOf(PreDoc), "webviewInstallMode") # Missing
    /\ Lookup(NsisOf(PreDoc), "installMode") # Missing
    /\ Persisted # PreDoc

\* C4: a run on the files a successful run produced does not fail, and when
\* it has ended both files are what that first run left.
C4_Idempotent ==
    prevOk => /\ pc # "failed"
              /\ Succeeded => Files = pre

C4_Witness == prevOk /\ Succeeded /\ Files = pre

\* C5: a run on a missing or malformed configuration file ends in a failure
\* that leaves both the configuration file and the hook file as they were.
C5_FailureWritesNothing ==
    (Ended /\ pre.config_file.kind \in {"absent", "malformed"})
       => pc = "failed" /\ Files = pre

\* C6: after a successful run the hook file exists and holds exactly the
\* fixed macro text, whatever it held before.
C6_HooksFileVerbatim ==
    Succeeded => hooks_file = HooksFile(nsis_hook_content)

C6_Witness ==
    /\ Succeeded
    /\ pre.hooks_file = HooksFile(<<"; hooks of an earlier build">>)
    /\ hooks_file = HooksFile(nsis_hook_content)

\* C7: the steps of a run are load, mutate, write the hook file, persist,
\* print: the hook file is not written before the configuration is loaded.
C7_HooksWrittenAfterLoad ==
    /\ Completed("write_hooks") => Completed("load")
    /\ Completed("dump") => Completed("write_hooks")
    /\ Completed("print_done") => Completed("dump")

\* C8: bundle.windows and bundle.windows.nsis are created as {} exactly when
\* absent (and the run then succeeds on a sound filesystem), an existing
\* mapping is kept, and a document without `bundle` fails with the
\* configuration file never opened for writing.
C8_MappingsCreatedWhenAbsent ==
    /\ (IsObject(BundleOf(PreDoc)) /\ WindowsOf(PreDoc) = Missing) =>
          /\ env = "ok" => pc # "failed"
          /\ pc = "ensure_nsis" => WindowsOf(config) = EmptyObject
          /\ Succeeded => WindowsOf(Persisted) =
                JObject(<<Member("nsis",
                    JObject(<<Member("installerHooks", JString(hooks_name))>>))>>)
    /\ (IsObject(WindowsOf(PreDoc)) /\ NsisOf(PreDoc) = Missing) =>
          /\ env = "ok" => pc # "failed"
          /\ pc = "set_hooks" => NsisOf(config) = EmptyObject
    /\ (IsObject(WindowsOf(PreDoc)) /\ pc = "ensure_nsis") =>
          WindowsOf(config) = WindowsOf(PreDoc)
    /\ (IsObject(NsisOf(PreDoc)) /\ pc = "set_hooks") =>
          NsisOf(config) = NsisOf(PreDoc)
    /\ (IsObject(PreDoc) /\ ~Has(PreDoc, "bundle")) =>
          /\ pc \notin {"ensure_windows", "ensure_nsis", "set_hooks", "dump",
                        "print_done", "done"}
          /\ config_file = pre.config_file
          /\ ~Has(OrEmpty(config), "bundle")
          /\ Ended => pc = "failed"
          /\ (Ended /\ Completed("load")) => err = "KeyError"

C8_Witness ==
    /\ Succeeded
    /\ IsObject(BundleOf(PreDoc))
    /\ WindowsOf(PreDoc) = Missing
    /\ WindowsOf(Persisted) # Missing

\* C9: once a run has written the hook file, the file keeps the macro text
\* through every later step, a failure included; nothing is rolled back.
C9_NoRollback ==
    Completed("write_hooks") =>
       /\ hooks_file = HooksFile(nsis_hook_content)
       /\ (pc = "failed" /\ err # "OSError") => config_file = pre.config_file

C9_Witness ==
    /\ pc = "failed"
    /\ Completed("write_hooks")
    /\ pre.hooks_file # HooksFile(nsis_hook_content)
    /\ hooks_file = HooksFile(nsis_hook_content)
    /\ InstallerHooksOf(Persisted) # JString(hooks_name)

\* C10: in a run that found a configuration not referencing the hook,
\* whenever the configuration file on disk has installerHooks =
\* "nsis_hooks.nsi" the hook file already holds the macro text.
C10_ManifestNeverAheadOfHooks ==
    (InstallerHooksOf(PreDoc) # JString(hooks_name)
        /\ InstallerHooksOf(Persisted) = JString(hooks_name))
       => hooks_file = HooksFile(nsis_hook_content)

C10_Witness ==
    /\ pc = "print_done"
    /\ InstallerHooksOf(PreDoc) # JString(hooks_name)
    /\ InstallerHooksOf(Persisted) = JString(hooks_name)
    /\ pre.hooks_file = AbsentHooks
====
